---- MODULE Spec2Model ----
(***************************************************************************)
(* A model of py/serve.py: a static-file HTTP server made of               *)
(*   - two module-level MIME registrations (mimetypes.add_type),           *)
(*   - ResilientTCPServer, a socketserver.ThreadingTCPServer with           *)
(*     allow_reuse_address = True and an overridden handle_error,          *)
(*   - the __main__ block: parse_args, bind, banner, serve_forever.        *)
(* The request handler is http.server.SimpleHTTPRequestHandler; the parts  *)
(* of the standard library the program runs through (socketserver's        *)
(* dispatch, the handler's send_head / translate_path / guess_type,        *)
(* mimetypes, posixpath) are modelled as CPython 3.11 implements them.     *)
(*                                                                         *)
(* Three next-state relations share the start-up actions:                  *)
(*   Spec / SpecLive  the process, its listener and its handler threads;   *)
(*   SpecMime         the handler's content-type lookup on a served path;  *)
(*   SpecHttp         the handler's answer to one request.                 *)
(***************************************************************************)
EXTENDS Integers, Sequences, FiniteSets, TLC

\* ---------------------------------------------------------------- bounds
MaxConns == 2
MaxPathLen == 5
MaxSegs == 3

\* ------------------------------------------------------- program constants
DEFAULT_PORT == 8000

VARIABLES
    pc,         \* where the main thread is: "add_js", "add_css", "parse_args",
                \* "bind", "banner", "serve", or an end state
    registry,   \* mimetypes' strict types_map: extension -> content type
    args,       \* the parsed command line: [port |-> ...]
    stdout,     \* the lines printed by this process
    stderr,     \* the error reports written by this process
    sock,       \* the operating system's view of the TCP port
    conn,       \* per connection: state, client behaviour, pending exception
    backlog,    \* connections completed by the OS, not yet accepted
    guessed,    \* SpecMime: the last (path, content type) looked up
    exchange    \* SpecHttp: the file tree and the last request/response

vars == <<pc, registry, args, stdout, stderr, sock, conn, backlog,
          guessed, exchange>>

Conns == 1..MaxConns

\* ======================================================= the MIME registry

\* Paths are sequences of one-character strings.
Chars == {"/", ".", "j", "s", "c", "J"}

JS_EXT == <<".", "j", "s">>
CSS_EXT == <<".", "c", "s", "s">>

\* What mimetypes' table may hold for an extension before the program's
\* registrations: it depends on the platform (mime.types files, registry).
\* Here: a table that omits both extensions, and one that misclassifies both.
PlatformTables ==
    { <<>>,
      (JS_EXT :> "text/plain") @@ (CSS_EXT :> "text/plain") }

\* mimetypes.add_type(type, ext): types_map[True][ext] = type
add_type_keep(map, type, ext) ==
    [e \in DOMAIN map \cup {ext} |->
        IF e \in DOMAIN map THEN map[e] ELSE type]

add_type(map, type, ext) ==
    [e \in DOMAIN map \cup {ext} |-> IF e = ext THEN type ELSE map[e]]

\* str.rfind, 1-based: the last index of ch in p, 0 when there is none
rfind(p, ch) ==
    LET hits == {i \in 1..Len(p) : p[i] = ch}
    IN  IF hits = {} THEN 0 ELSE CHOOSE i \in hits : \A j \in hits : j <= i

\* posixpath.splitext(p)[1]: everything from the last dot of the last
\* component, unless only dots precede it in that component
splitext_ext(p) ==
    LET sepIndex == rfind(p, "/")
        dotIndex == rfind(p, ".")
    IN  IF /\ dotIndex > sepIndex
           /\ \E filenameIndex \in (sepIndex + 1)..(dotIndex - 1) :
                  p[filenameIndex] # "."
        THEN SubSeq(p, dotIndex, Len(p))
        ELSE <<>>

splitext_root(p) ==
    LET e == splitext_ext(p) IN SubSeq(p, 1, Len(p) - Len(e))

lower_char(ch) == IF ch = "J" THEN "j" ELSE ch

\* str.lower
lower(s) == [i \in 1..Len(s) |-> lower_char(s[i])]

\* SimpleHTTPRequestHandler.extensions_map
extensions_map ==
    (<<".", "g", "z">> :> "application/gzip")
    @@ (<<".", "Z">> :> "application/octet-stream")
    @@ (<<".", "b", "z", "2">> :> "application/x-bzip2")
    @@ (<<".", "x", "z">> :> "application/x-xz")

\* mimetypes.encodings_map
encodings_map == {<<".", "g", "z">>, <<".", "Z">>, <<".", "b", "z", "2">>,
                  <<".", "x", "z">>, <<".", "b", "r">>}

\* mimetypes.guess_type(path)[0] on a file-system path ("none" for None).
\* The path starts with "/", so it has no URL scheme; suffix_map (.tgz, .svgz,
\* ...) rewrites none of the extensions that the alphabet Chars can spell.
mimetypes_guess_type(map, path) ==
    LET ext0 == splitext_ext(path)
        ext1 == IF ext0 \in encodings_map
                THEN splitext_ext(splitext_root(path))
                ELSE ext0
        ext  == lower(ext1)
    IN  IF ext \in DOMAIN map THEN map[ext] ELSE "none"

\* SimpleHTTPRequestHandler.guess_type(path)
guess_type(map, path) ==
    LET ext == splitext_ext(path)
    IN  IF ext \in DOMAIN extensions_map THEN extensions_map[ext]
        ELSE IF lower(ext) \in DOMAIN extensions_map
             THEN extensions_map[lower(ext)]
        ELSE IF mimetypes_guess_type(map, path) # "none"
             THEN mimetypes_guess_type(map, path)
        ELSE "application/octet-stream"

\* ============================================================ the process

\* The command line's --port values: the default, and another one.
Ports == {DEFAULT_PORT, 8001}

\* The exception types a handler thread may raise while serving a client.
ExcTypes == {"BrokenPipeError", "ConnectionResetError",
             "ConnectionAbortedError", "ValueError"}

\* What a client does: completes its request, stays silent for ever, or
\* makes the handler raise an exception of that type.
Behaviours == {"ok", "stuck"} \cup ExcTypes

\* args before parse_args has run
NoArgs == [port |-> 0]

NoConn == [st |-> "none", beh |-> "none"]

FreeSock == [owner |-> "none", lingering |-> FALSE]

TypeOK ==
    /\ pc \in {"add_js", "add_css", "parse_args", "bind", "banner", "serve",
               "usage_error", "bind_error", "stopped", "crashed"}
    /\ args \in {NoArgs} \cup [port : Ports]
    /\ sock \in [owner : {"none", "self", "other"}, lingering : BOOLEAN]
    /\ conn \in [Conns -> [st : {"none", "queued", "handling", "except",
                                 "finally", "closed"},
                           beh : Behaviours \cup {"none"}]]

InitProcess ==
    /\ pc = "add_js"
    /\ registry \in PlatformTables
    /\ args = NoArgs
    /\ stdout = <<>>
    /\ stderr = <<>>
    /\ sock \in {FreeSock, [owner |-> "other", lingering |-> FALSE]}
    /\ conn = [c \in Conns |-> NoConn]
    /\ backlog = <<>>

Init ==
    /\ InitProcess
    /\ guessed = "none"
    /\ exchange = "none"

\* ---- module level, lines 9-10
add_type_js_skipped ==
    /\ pc = "add_js"
    /\ pc' = "add_css"
    /\ UNCHANGED <<registry, args, stdout, stderr, sock, conn, backlog, guessed,
                   exchange>>

add_type_js ==
    /\ pc = "add_js"
    /\ registry' = add_type(registry, "application/javascript", JS_EXT)
    /\ pc' = "add_css"
    /\ UNCHANGED <<args, stdout, stderr, sock, conn, backlog, guessed, exchange>>

add_type_css ==
    /\ pc = "add_css"
    /\ registry' = add_type(registry, "text/css", CSS_EXT)
    /\ pc' = "parse_args"
    /\ UNCHANGED <<args, stdout, stderr, sock, conn, backlog, guessed, exchange>>

\* ---- parse_args(): --port must parse as an int, else argparse exits
parse_args ==
    /\ pc = "parse_args"
    /\ \/ \E p \in Ports :
            /\ args' = [port |-> p]
            /\ pc' = "bind"
            /\ stderr' = stderr
       \/ /\ pc' = "usage_error"
          /\ stderr' = Append(stderr, [conn |-> 0, exc |-> "usage"])
          /\ args' = args
    /\ UNCHANGED <<registry, stdout, sock, conn, backlog, guessed, exchange>>

\* ---- class attribute, line 13
allow_reuse_address_off == FALSE

allow_reuse_address == TRUE

\* socket.bind as TCPServer.server_bind calls it: the port must not have a
\* listener, and sockets of an earlier listener still in teardown block the
\* bind unless SO_REUSEADDR was set
bind_succeeds ==
    /\ sock.owner = "none"
    /\ sock.lingering => allow_reuse_address

\* ---- ResilientTCPServer(("", args.port), handler): bind and listen; an
\* OSError from bind leaves the program with a traceback
server_init_nonfatal ==
    /\ pc = "bind"
    /\ IF bind_succeeds
       THEN /\ sock' = [sock EXCEPT !.owner = "self"]
            /\ stderr' = stderr
       ELSE /\ sock' = sock
            /\ stderr' = Append(stderr, [conn |-> 0, exc |-> "OSError"])
    /\ pc' = "banner"
    /\ UNCHANGED <<registry, args, stdout, conn, backlog, guessed, exchange>>

server_init ==
    /\ pc = "bind"
    /\ IF bind_succeeds
       THEN /\ sock' = [sock EXCEPT !.owner = "self"]
            /\ pc' = "banner"
            /\ stderr' = stderr
       ELSE /\ sock' = sock
            /\ pc' = "bind_error"
            /\ stderr' = Append(stderr, [conn |-> 0, exc |-> "OSError"])
    /\ UNCHANGED <<registry, args, stdout, conn, backlog, guessed, exchange>>

banner(port) == [text |-> "Serving on http://localhost:", port |-> port]

\* ---- print(f"Serving on http://localhost:{args.port}")
print_banner ==
    /\ pc = "banner"
    /\ stdout' = Append(stdout, banner(args.port))
    /\ pc' = "serve"
    /\ UNCHANGED <<registry, args, stderr, sock, conn, backlog, guessed, exchange>>

\* ------------------------------------------------ clients and the listener

Used == {c \in Conns : conn[c].st # "none"}

\* A client connects: the OS completes the handshake and queues the
\* connection on the listening socket (from listen() on, before any accept).
Connect ==
    /\ sock.owner = "self"
    /\ Cardinality(Used) < MaxConns
    /\ \E b \in Behaviours :
         LET c == Cardinality(Used) + 1
         IN  /\ conn' = [conn EXCEPT ![c] = [st |-> "queued", beh |-> b]]
             /\ backlog' = Append(backlog, c)
    /\ UNCHANGED <<pc, registry, args, stdout, stderr, sock, guessed, exchange>>

InThread(c) == conn[c].st \in {"handling", "except", "finally"}

\* ---- class ResilientTCPServer(socketserver.ThreadingTCPServer), line 12:
\* ThreadingMixIn.process_request starts a thread and returns, so the serve
\* loop is free for the next accept whatever the handlers are doing.  In the
\* plain TCPServer the loop itself runs the handler.
dispatcher_free_unthreaded == \A c \in Conns : ~InThread(c)

dispatcher_free == TRUE

\* ---- httpd.serve_forever(), one turn: accept the oldest queued
\* connection and hand it to a new handler thread
accept ==
    /\ pc = "serve"
    /\ backlog # <<>>
    /\ dispatcher_free
    /\ conn' = [conn EXCEPT ![Head(backlog)].st = "handling"]
    /\ backlog' = Tail(backlog)
    /\ UNCHANGED <<pc, registry, args, stdout, stderr, sock, guessed, exchange>>

\* ---- ThreadingMixIn.process_request_thread, try: finish_request(...)
\* The handler answers the client, or raises; a silent client keeps it
\* waiting.
finish_request(c) ==
    /\ conn[c].st = "handling"
    /\ conn[c].beh # "stuck"
    /\ conn' = [conn EXCEPT ![c].st =
                    IF conn[c].beh = "ok" THEN "finally" ELSE "except"]
    /\ UNCHANGED <<pc, registry, args, stdout, stderr, sock, backlog, guessed,
                   exchange>>

\* sys.exc_info()[0] in the thread handling c: the exception being handled
\* by that thread
sys_exc_info_shared(c) ==
    IF \E d \in Conns : d # c /\ conn[d].st = "except"
    THEN conn[CHOOSE d \in Conns : d # c /\ conn[d].st = "except"].beh
    ELSE conn[c].beh

sys_exc_info(c) == conn[c].beh

\* ---- line 17: the exception types handle_error drops
suppressed_only_pipe == {"BrokenPipeError"}

suppressed_connection_errors ==
    {"BrokenPipeError", "ConnectionResetError", "ConnectionAbortedError"}

suppressed == {"BrokenPipeError", "ConnectionResetError"}

\* BaseServer.handle_error: a banner and the traceback on stderr
report(c, exc_type) == Append(stderr, [conn |-> c, exc |-> exc_type])

\* ---- ResilientTCPServer.handle_error, lines 15-19, run by the thread
\* handling c in its except clause
handle_error_fatal(c) ==
    /\ conn[c].st = "except"
    /\ LET exc_type == sys_exc_info(c)
       IN  IF exc_type \in suppressed
           THEN /\ stderr' = report(c, exc_type)
                /\ pc' = "crashed"
           ELSE /\ stderr' = report(c, exc_type)
                /\ pc' = pc
    /\ conn' = [conn EXCEPT ![c].st = "finally"]
    /\ UNCHANGED <<registry, args, stdout, sock, backlog, guessed, exchange>>

handle_error(c) ==
    /\ conn[c].st = "except"
    /\ LET exc_type == sys_exc_info(c)
       IN  IF exc_type \in suppressed
           THEN stderr' = stderr
           ELSE stderr' = report(c, exc_type)
    /\ conn' = [conn EXCEPT ![c].st = "finally"]
    /\ UNCHANGED <<pc, registry, args, stdout, sock, backlog, guessed, exchange>>

\* ---- process_request_thread, finally: shutdown_request(request)
shutdown_request(c) ==
    /\ conn[c].st = "finally"
    /\ conn' = [conn EXCEPT ![c].st = "closed"]
    /\ UNCHANGED <<pc, registry, args, stdout, stderr, sock, backlog, guessed,
                   exchange>>

HandlerThread(c) == finish_request(c) \/ handle_error(c) \/ shutdown_request(c)

\* ------------------------------------------------------- the environment

\* A termination signal ends the serving process.  Its sockets are closed;
\* connections it had accepted leave sockets in teardown on the port.
Stop ==
    /\ pc = "serve"
    /\ pc' = "stopped"
    /\ sock' = [owner |-> "none",
                lingering |-> sock.lingering
                              \/ \E c \in Conns : conn[c].st \notin {"none", "queued"}]
    /\ conn' = [c \in Conns |-> NoConn]
    /\ backlog' = <<>>
    /\ UNCHANGED <<registry, args, stdout, stderr, guessed, exchange>>

\* The operating system finishes the teardown of the old sockets.
TeardownEnds ==
    /\ sock.lingering
    /\ sock' = [sock EXCEPT !.lingering = FALSE]
    /\ UNCHANGED <<pc, registry, args, stdout, stderr, conn, backlog, guessed,
                   exchange>>

\* The program is started again: a new process, from line 1.
Relaunch ==
    /\ pc \in {"stopped", "bind_error", "usage_error"}
    /\ pc' = "add_js"
    /\ registry' \in PlatformTables
    /\ args' = NoArgs
    /\ stdout' = <<>>
    /\ stderr' = <<>>
    /\ UNCHANGED <<sock, conn, backlog, guessed, exchange>>

MainThread ==
    \/ add_type_js
    \/ add_type_css
    \/ parse_args
    \/ server_init
    \/ print_banner
    \/ accept

Next ==
    \/ MainThread
    \/ Connect
    \/ \E c \in Conns : HandlerThread(c)
    \/ Stop
    \/ TeardownEnds
    \/ Relaunch

Spec == Init /\ [][Next]_vars

\* Threads are scheduled fairly: the main thread and every handler thread
\* keep taking the steps they can take.  Clients and signals owe nothing.
SpecLive ==
    /\ Init
    /\ [][Next]_vars
    /\ WF_vars(MainThread)
    /\ \A c \in Conns : WF_vars(HandlerThread(c))

\* =========================================== the handler: content type

\* The file-system paths send_head hands to guess_type: the served directory,
\* a "/", and the request's words.  Only what follows the directory matters
\* to splitext, so a path here is "/" and up to MaxPathLen characters.
Paths == { <<"/">> \o r : r \in UNION { [1..n -> Chars] : n \in 1..MaxPathLen } }

NoGuess == [path |-> <<>>, ctype |-> "none"]

InitMime ==
    /\ InitProcess
    /\ guessed = NoGuess
    /\ exchange = "none"

\* ---- handler = http.server.SimpleHTTPRequestHandler, line 35:
\* send_head's ctype = self.guess_type(path), in the handler thread of one
\* connection
send_head_ctype ==
    /\ pc = "serve"
    /\ guessed = NoGuess
    /\ \E path \in Paths :
          guessed' = [path |-> path, ctype |-> guess_type(registry, path)]
    /\ UNCHANGED <<pc, registry, args, stdout, stderr, sock, conn, backlog, exchange>>

NextMime ==
    \/ add_type_js
    \/ add_type_css
    \/ parse_args
    \/ server_init
    \/ print_banner
    \/ send_head_ctype

SpecMime == InitMime /\ [][NextMime]_vars

\* ================================================ the handler: one request

\* A request path is the list of its "/"-separated segments after the
\* leading "/": "/f" is <<"f">>, "/d/" is <<"d", "">>, "/" is <<"">>.
\* "%66" is the percent-escape of "f".
Segments == {"f", "d", "..", "", "%66"}

RequestPaths == UNION { [1..n -> Segments] : n \in 1..MaxSegs }

Methods == {"GET", "HEAD", "POST"}

\* If-Modified-Since: absent (or ill-formed), earlier than the file's
\* modification time, or not earlier.
ImsValues == {"absent", "earlier", "not_earlier"}

Requests == [method : Methods, path : RequestPaths, ims : ImsValues,
             inm : BOOLEAN]

\* The served tree: f (a file, possibly unreadable), d (a directory) with
\* d/f and d/index.html.
Trees ==
    { t \in [f : {"absent", "file", "noperm"}, d : {"absent", "dir"},
             df : {"absent", "file"}, idx : {"absent", "file"}] :
        t.d = "absent" => (t.df = "absent" /\ t.idx = "absent") }

\* What the file system holds at a list of names under the served root.
Lookup(t, names) ==
    IF names = <<>> THEN "dir"
    ELSE IF names = <<"f">> THEN t.f
    ELSE IF names = <<"d">> THEN t.d
    ELSE IF names = <<"d", "f">> THEN t.df
    ELSE IF names = <<"d", "index.html">> THEN t.idx
    ELSE "absent"

\* The bytes of the file at names.
Content(names) == <<"bytes of">> \o names

\* urllib.parse.unquote on one segment
unquote(seg) == IF seg = "%66" THEN "f" ELSE seg

\* posixpath.normpath's loop over the components of a path with a leading
\* slash
RECURSIVE normpath(_, _)
normpath(comps, new_comps) ==
    IF comps = <<>> THEN new_comps
    ELSE LET comp == Head(comps)
         IN  IF comp \in {"", "."} THEN normpath(Tail(comps), new_comps)
             ELSE IF \/ comp # ".."
                     \/ (new_comps # <<>> /\ new_comps[Len(new_comps)] = "..")
                  THEN normpath(Tail(comps), Append(new_comps, comp))
             ELSE IF new_comps # <<>>
                  THEN normpath(Tail(comps), SubSeq(new_comps, 1, Len(new_comps) - 1))
             ELSE normpath(Tail(comps), new_comps)

\* SimpleHTTPRequestHandler.translate_path: the names under the served
\* directory, and whether a trailing slash is kept
translate_path_raw(path) ==
    [names |-> SelectSeq(normpath(path, <<>>),
                         LAMBDA w : w \notin {"", ".", ".."}),
     slash |-> path[Len(path)] = ""]

translate_path(path) ==
    [names |-> SelectSeq(normpath([i \in 1..Len(path) |-> unquote(path[i])], <<>>),
                         LAMBDA w : w \notin {"", ".", ".."}),
     slash |-> path[Len(path)] = ""]

ErrorPage == <<"error page">>

\* SimpleHTTPRequestHandler.send_head and do_GET / do_HEAD, and
\* handle_one_request's 501 for a method without a do_ method
respond(t, req) ==
    LET p      == translate_path(req.path)
        isdir  == Lookup(t, p.names) = "dir"
        index  == Append(p.names, "index.html")
        hasidx == Lookup(t, index) = "file"
        names  == IF isdir /\ hasidx THEN index ELSE p.names
        slash  == IF isdir /\ hasidx THEN FALSE ELSE p.slash
        get    == req.method = "GET"
    IN  IF req.method \notin {"GET", "HEAD"}
        THEN [status |-> 501, body |-> ErrorPage]
        ELSE IF isdir /\ req.path[Len(req.path)] # ""
        THEN [status |-> 301, body |-> <<>>]
        ELSE IF isdir /\ ~hasidx
        THEN [status |-> 200,
              body |-> IF get THEN <<"listing of">> \o p.names ELSE <<>>]
        ELSE IF slash \/ Lookup(t, names) # "file"
        THEN [status |-> 404, body |-> IF get THEN ErrorPage ELSE <<>>]
        ELSE IF req.ims = "not_earlier" /\ ~req.inm
        THEN [status |-> 304, body |-> <<>>]
        ELSE [status |-> 200, body |-> IF get THEN Content(names) ELSE <<>>]

NoRequest == [method |-> "none", path |-> <<>>, ims |-> "absent", inm |-> FALSE]

InitHttp ==
    /\ pc = "add_js"
    /\ registry = <<>>
    /\ args = NoArgs
    /\ stdout = <<>>
    /\ stderr = <<>>
    /\ sock = FreeSock
    /\ conn = [c \in Conns |-> NoConn]
    /\ backlog = <<>>
    /\ guessed = "none"
    /\ \E t \in Trees :
          exchange = [fs |-> t, req |-> NoRequest,
                      resp |-> [status |-> 0, body |-> <<>>]]

\* ---- handler = http.server.SimpleHTTPRequestHandler, line 35: a handler
\* thread reads the request of one connection and writes its response
handle_one_request ==
    /\ pc = "serve"
    /\ exchange.req = NoRequest
    /\ \E req \in Requests :
          exchange' = [exchange EXCEPT !.req = req,
                                       !.resp = respond(exchange.fs, req)]
    /\ UNCHANGED <<pc, registry, args, stdout, stderr, sock, conn, backlog, guessed>>

NextHttp ==
    \/ add_type_js
    \/ add_type_css
    \/ parse_args
    \/ server_init
    \/ print_banner
    \/ handle_one_request

SpecHttp == InitHttp /\ [][NextHttp]_vars

\* ================================================================ claims

\* The two disconnect kinds the specification names.
DisconnectErrors == {"BrokenPipeError", "ConnectionResetError"}

Accepted(c) == conn[c].st \notin {"none", "queued"}

Reported(c) == \E i \in 1..Len(stderr) : stderr[i].conn = c

\* A step in which the thread handling c runs handle_error.
HandleErrorStep(c) == conn[c].st = "except" /\ conn'[c].st = "finally"

\* C1: whenever handle_error runs for a connection whose handling raised a
\* broken-pipe or connection-reset error, nothing is written to the error
\* log and the server keeps running.
C1_DisconnectsAreSilent ==
    [][\A c \in Conns :
          (HandleErrorStep(c) /\ conn[c].beh \in DisconnectErrors)
              => (stderr' = stderr /\ pc' = pc)]_vars

C1_Witness ==
    \E c \in Conns :
        /\ conn[c].st = "finally"
        /\ conn[c].beh \in DisconnectErrors
        /\ ~Reported(c)
        /\ pc = "serve"

\* C2: whenever handle_error runs for a connection whose handling raised any
\* other exception, the default report is written for that connection and
\* the server keeps running.
C2_OtherErrorsAreReported ==
    [][\A c \in Conns :
          (HandleErrorStep(c) /\ conn[c].beh \in ExcTypes \ DisconnectErrors)
              => /\ stderr' = Append(stderr, [conn |-> c, exc |-> conn[c].beh])
                 /\ pc' = pc]_vars

C2_Witness ==
    \E c \in Conns :
        /\ conn[c].st = "finally"
        /\ conn[c].beh = "ConnectionAbortedError"
        /\ Reported(c)
        /\ pc = "serve"

\* C3: client disconnects never take the server out of its serve loop (only
\* a termination signal does), and every queued connection of a client that
\* completes its request is eventually answered and closed, unless the
\* server is stopped first.
C3_ServesAfterDisconnects ==
    /\ [][pc = "serve" => pc' \in {"serve", "stopped"}]_vars
    /\ \A c \in Conns :
          (conn[c].st = "queued" /\ conn[c].beh = "ok")
              ~> ((conn[c].st = "closed" /\ conn[c].beh = "ok") \/ pc = "stopped")

C3_Witness ==
    \E c, d \in Conns :
        /\ d < c
        /\ conn[d].st = "closed" /\ conn[d].beh \in DisconnectErrors
        /\ conn[c].st = "closed" /\ conn[c].beh = "ok"
        /\ pc = "serve"

\* C4: with a client that keeps its handler waiting for ever, every queued
\* connection is still accepted and every other handler still runs to the
\* end of its connection.
C4_StuckClientStallsNobody ==
    \A c \in Conns :
        /\ (conn[c].st = "queued") ~> (conn[c].st # "queued")
        /\ (conn[c].st = "handling" /\ conn[c].beh # "stuck")
              ~> (conn[c].st # "handling")
        /\ (conn[c].st \in {"except", "finally"}) ~> (conn[c].st \in {"closed", "none"})

C4_Witness ==
    \E c, d \in Conns :
        /\ d < c
        /\ conn[d].st = "handling" /\ conn[d].beh = "stuck"
        /\ conn[c].st = "closed" /\ conn[c].beh = "ok"

BindFailed == \E i \in 1..Len(stderr) : stderr[i] = [conn |-> 0, exc |-> "OSError"]

\* C7: a failed bind ends the process with nothing printed and nothing
\* accepted; the banner is printed only after a successful bind, at most
\* once, and is there exactly once when a connection is accepted.
C7_BindBannerServe ==
    /\ BindFailed => (pc = "bind_error" /\ stdout = <<>>
                      /\ \A c \in Conns : ~Accepted(c))
    /\ pc \in {"add_js", "add_css", "parse_args", "bind", "banner"} => stdout = <<>>
    /\ (pc = "serve" \/ \E c \in Conns : Accepted(c))
          => (stdout = <<banner(args.port)>> /\ sock.owner = "self")

C7_Witness ==
    /\ pc = "serve"
    /\ \E c \in Conns : Accepted(c)
    /\ stdout = <<banner(args.port)>>

\* C8: a bind attempted while sockets of an earlier instance are still in
\* teardown on the port, and no other listener holds it, succeeds.
C8_RebindDuringTeardown ==
    [][(pc = "bind" /\ pc' # "bind" /\ sock.owner = "none" /\ sock.lingering)
          => (pc' = "banner" /\ sock'.owner = "self")]_vars

C8_Witness ==
    /\ pc = "serve"
    /\ sock.owner = "self"
    /\ sock.lingering

Registered ==
    /\ JS_EXT \in DOMAIN registry /\ registry[JS_EXT] = "application/javascript"
    /\ CSS_EXT \in DOMAIN registry /\ registry[CSS_EXT] = "text/css"

\* C9: both registrations are in the registry whenever the listener is bound
\* or a connection has been accepted, and no step taken after an accept
\* changes the registry.
C9_RegistryWrittenAtStartupOnly ==
    /\ []((sock.owner = "self" \/ \E c \in Conns : Accepted(c)) => Registered)
    /\ [][(\E c \in Conns : Accepted(c)) => registry' = registry]_vars

C9_Witness ==
    /\ Registered
    /\ \E c, d \in Conns : c # d /\ InThread(c) /\ InThread(d)

\* C10: once handle_error has run for a connection, that connection is
\* reported exactly when its own exception is neither broken-pipe nor
\* connection-reset, whatever the other handler threads are doing.
C10_DecisionIsPerConnection ==
    \A c \in Conns :
        (conn[c].st \in {"finally", "closed"} /\ conn[c].beh \in ExcTypes)
            => (Reported(c) <=> conn[c].beh \notin DisconnectErrors)

C10_Witness ==
    \E c, d \in Conns :
        /\ conn[c].st = "finally" /\ conn[c].beh \in DisconnectErrors
        /\ conn[d].st = "finally" /\ conn[d].beh \in ExcTypes \ DisconnectErrors
        /\ ~Reported(c)
        /\ Reported(d)

EndsWith(p, suffix) ==
    /\ Len(p) >= Len(suffix)
    /\ SubSeq(p, Len(p) - Len(suffix) + 1, Len(p)) = suffix

\* The file name (the part after the last "/") is a stem followed by the
\* suffix, and the stem has a character that is not a dot.
HasStemBefore(p, suffix) ==
    /\ EndsWith(p, suffix)
    /\ \E i \in 1..(Len(p) - Len(suffix)) :
          /\ p[i] \notin {".", "/"}
          /\ \A j \in i..(Len(p) - Len(suffix)) : p[j] # "/"

\* C5 as stated: every served path ending in .js gets application/javascript
\* and every served path ending in .css gets text/css.
C5_AsStated ==
    /\ EndsWith(guessed.path, JS_EXT) => guessed.ctype = "application/javascript"
    /\ EndsWith(guessed.path, CSS_EXT) => guessed.ctype = "text/css"

\* C5, amended: every served path whose file name is a stem with a character
\* other than a dot, followed by .js, gets application/javascript, and
\* likewise .css gets text/css, whatever the platform's table held.
C5_ExtensionOverrides ==
    /\ HasStemBefore(guessed.path, JS_EXT)
          => guessed.ctype = "application/javascript"
    /\ HasStemBefore(guessed.path, CSS_EXT) => guessed.ctype = "text/css"

C5_Witness ==
    /\ guessed.path = <<"/", "c", ".", "c", "s", "s">>
    /\ guessed.ctype = "text/css"

\* What a request path names: its escapes decoded and its dot segments
\* resolved ("." and empty segments dropped, ".." dropping the segment before
\* it), looked up under the served root; a trailing slash names no file.
RECURSIVE Resolve(_)
Resolve(path) ==
    IF path = <<>> THEN <<>>
    ELSE LET before == Resolve(SubSeq(path, 1, Len(path) - 1))
             last   == path[Len(path)]
         IN  IF last \in {"", "."} THEN before
             ELSE IF last = ".."
                  THEN IF before = <<>> THEN <<>>
                       ELSE SubSeq(before, 1, Len(before) - 1)
             ELSE Append(before, IF last = "%66" THEN "f" ELSE last)

Names(t, path) ==
    LET kind == Lookup(t, Resolve(path))
    IN  IF kind \in {"file", "noperm"} /\ path[Len(path)] = "" THEN "absent"
        ELSE kind

Answered == exchange.req.method # "none"

\* C6 as stated: every request for an existing readable file gets 200 and
\* the file's bytes; every request for a path that does not exist gets 404.
C6_AsStated ==
    Answered =>
        /\ Names(exchange.fs, exchange.req.path) = "file"
              => /\ exchange.resp.status = 200
                 /\ exchange.resp.body = Content(Resolve(exchange.req.path))
        /\ Names(exchange.fs, exchange.req.path) = "absent"
              => exchange.resp.status = 404

\* C6, amended: every GET request for an existing readable file that carries
\* no If-Modified-Since date the file satisfies (or carries If-None-Match)
\* gets 200 and the file's bytes; every GET or HEAD request for a path that
\* does not exist gets 404.
C6_GetServesFileOr404 ==
    Answered =>
        /\ ( /\ Names(exchange.fs, exchange.req.path) = "file"
             /\ exchange.req.method = "GET"
             /\ (exchange.req.ims = "not_earlier" => exchange.req.inm) )
              => /\ exchange.resp.status = 200
                 /\ exchange.resp.body = Content(Resolve(exchange.req.path))
        /\ ( /\ Names(exchange.fs, exchange.req.path) = "absent"
             /\ exchange.req.method \in {"GET", "HEAD"} )
              => exchange.resp.status = 404

C6_Witness ==
    /\ exchange.req.method = "GET"
    /\ exchange.req.path = <<"d", "..", "%66">>
    /\ exchange.fs.f = "file"
    /\ exchange.resp = [status |-> 200, body |-> Content(<<"f">>)]

====
